---- MODULE Spec2Model ----
(***************************************************************************)
(* Model of the dashboard client app/static/script.js: the DOM fields the  *)
(* script writes, the Socket.IO event handlers, the two button handlers    *)
(* and the clock, each handler being one atomic step of the single         *)
(* threaded event loop.                                                    *)
(***************************************************************************)
EXTENDS Integers, Sequences, FiniteSets, TLC

VARIABLES
    socketConnected,   \* the transport handle created by io()
    statusDot,         \* class of #status-dot
    statusText,        \* text of #status-text
    startDisabled,     \* startBtn.disabled
    stopDisabled,      \* stopBtn.disabled
    overlayDisplay,    \* supervisionOverlay.style.display
    videoSrc,          \* videoFeed.src
    fpsText,           \* fpsStat.textContent
    facesText,         \* facesStat.textContent
    alertsLog,         \* children of #alerts-log, head first
    timeDisplay,       \* timeDisplay.textContent
    emitted,           \* every command handed to socket.emit, in order
    serverRecv,        \* how many of the emitted commands the server has received
    serverRunning,     \* whether the server is supervising
    inflight,          \* supervision_stopped notifications sent and not yet delivered
    alertSeq,          \* number of new_alert events handled (identity of the created elements)
    lastEvent,         \* the event the loop dispatched most recently, and the phase it found
    emitView,          \* what the page showed when that handler called socket.emit
    lastControl        \* the most recent start or stop-reset transition

vars == <<socketConnected, statusDot, statusText, startDisabled, stopDisabled,
          overlayDisplay, videoSrc, fpsText, facesText, alertsLog, timeDisplay,
          emitted, serverRecv, serverRunning, inflight, alertSeq, lastEvent,
          emitView, lastControl>>

dom == <<statusDot, statusText, startDisabled, stopDisabled, overlayDisplay,
         videoSrc, fpsText, facesText, alertsLog, timeDisplay>>

----------------------------------------------------------------------------
(* Bounds *)

MaxCommands == 4   \* user clicks explored
MaxAlerts == 2     \* new_alert events explored
MaxInflight == 2   \* supervision_stopped notifications in flight at once

----------------------------------------------------------------------------
(* Payloads the server may push *)

Frames ==
    { [image |-> "AAA", fps |-> 24, face_count |-> 1],
      [image |-> "BBB", fps |-> 25, face_count |-> 2],
      [image |-> "CCC", fps |-> 23, face_count |-> 1] }

NoFrame == [image |-> "", fps |-> 0, face_count |-> 0]

Alerts ==
    { [timestamp |-> 3661, type |-> "Phone Detected", message |-> "phone", severity |-> "high"],
      [timestamp |-> 86399, type |-> "Gaze Away", message |-> "gaze", severity |-> "low"] }

NoAlert == [timestamp |-> 0, type |-> "", message |-> "", severity |-> ""]

Times == {0, 43205}   \* readings of the wall clock, seconds of the day

----------------------------------------------------------------------------
(* Conversions *)

Digit(d) == <<"0", "1", "2", "3", "4", "5", "6", "7", "8", "9">>[d + 1]

RECURSIVE TextOf(_)
TextOf(n) == IF n < 10 THEN Digit(n) ELSE TextOf(n \div 10) \o Digit(n % 10)

TwoDigits(n) == IF n < 10 THEN "0" \o Digit(n) ELSE TextOf(n)

\* Date(...).toLocaleTimeString(): time of day of an instant
toLocaleTimeString(t) ==
    LET s == t % 86400
    IN  TwoDigits(s \div 3600) \o ":" \o TwoDigits((s % 3600) \div 60) \o ":" \o TwoDigits(s % 60)

DataUrl(image) == "data:image/jpeg;base64," \o image

PlaceholderSrc == "static/placeholder.png"

Unavailable == "--"

----------------------------------------------------------------------------
(* Alert log entries *)

PlaceholderEntry ==
    [classes |-> {"alert-placeholder"}, id |-> 0,
     timestamp |-> "", message |-> "Monitoring...", details |-> ""]

AlertItem(alert, n) ==
    [classes |-> {"alert-item", "severity-" \o alert.severity}, id |-> n,
     timestamp |-> toLocaleTimeString(alert.timestamp),
     message |-> alert.type, details |-> alert.message]

IsPlaceholder(e) == "alert-placeholder" \in e.classes

IsAlert(e) == "alert-item" \in e.classes

\* alertsLog.querySelector('.alert-placeholder'): index of the first match, 0 when none
querySelector(log) ==
    IF \E i \in 1..Len(log) : IsPlaceholder(log[i])
    THEN CHOOSE i \in 1..Len(log) :
            /\ IsPlaceholder(log[i])
            /\ \A j \in 1..(i - 1) : ~IsPlaceholder(log[j])
    ELSE 0

\* variant: the placeholder found is left where it is
remove_Nothing(log, i) == log

\* placeholder.remove()
remove(log, i) == SubSeq(log, 1, i - 1) \o SubSeq(log, i + 1, Len(log))

\* variant: the new entry goes to the tail (append instead of prepend)
prepend_AtTail(log, item) == log \o <<item>>

\* alertsLog.prepend(alertItem)
prepend(log, item) == <<item>> \o log

----------------------------------------------------------------------------
(* Session phase, as the controls show it *)

Phase == IF startDisabled /\ ~stopDisabled THEN "monitoring" ELSE "idle"

Dispatch(name, frame, alert) ==
    lastEvent' = [name |-> name, phase |-> Phase, frame |-> frame, alert |-> alert]

\* the controls, the overlay and the display fields as they are right now
View ==
    [emitting |-> TRUE, startDisabled |-> startDisabled, stopDisabled |-> stopDisabled,
     overlayDisplay |-> overlayDisplay, videoSrc |-> videoSrc,
     fpsText |-> fpsText, facesText |-> facesText]

\* the handler did not call socket.emit
NoView ==
    [emitting |-> FALSE, startDisabled |-> FALSE, stopDisabled |-> FALSE,
     overlayDisplay |-> "", videoSrc |-> "", fpsText |-> "", facesText |-> ""]

\* socket.emit(command), called with the page as the handler found it
emit(command) ==
    /\ emitted' = Append(emitted, command)
    /\ emitView' = View

----------------------------------------------------------------------------
(* UI control functions *)

\* variant: the overlay is not hidden
startSupervisionUI_OverlayKept ==
    /\ startDisabled' = TRUE
    /\ stopDisabled' = FALSE
    /\ overlayDisplay' = overlayDisplay
    /\ alertsLog' = <<PlaceholderEntry>>

\* variant: the old alerts are not cleared
startSupervisionUI_KeepsLog ==
    /\ startDisabled' = TRUE
    /\ stopDisabled' = FALSE
    /\ overlayDisplay' = "none"
    /\ alertsLog' = alertsLog

startSupervisionUI ==
    /\ startDisabled' = TRUE
    /\ stopDisabled' = FALSE
    /\ overlayDisplay' = "none"
    /\ alertsLog' = <<PlaceholderEntry>>

\* variant: the start control is not enabled again
stopSupervisionUI_StartLeftDisabled ==
    /\ startDisabled' = startDisabled
    /\ stopDisabled' = TRUE
    /\ overlayDisplay' = "flex"
    /\ videoSrc' = PlaceholderSrc
    /\ fpsText' = Unavailable
    /\ facesText' = Unavailable

\* variant: the controls and the overlay are toggled
stopSupervisionUI_Toggles ==
    /\ startDisabled' = ~startDisabled
    /\ stopDisabled' = ~stopDisabled
    /\ overlayDisplay' = (IF overlayDisplay = "flex" THEN "none" ELSE "flex")
    /\ videoSrc' = PlaceholderSrc
    /\ fpsText' = Unavailable
    /\ facesText' = Unavailable

\* variant: the stop control is left as it is
stopSupervisionUI_StopLeftEnabled ==
    /\ startDisabled' = FALSE
    /\ stopDisabled' = stopDisabled
    /\ overlayDisplay' = "flex"
    /\ videoSrc' = PlaceholderSrc
    /\ fpsText' = Unavailable
    /\ facesText' = Unavailable

stopSupervisionUI ==
    /\ startDisabled' = FALSE
    /\ stopDisabled' = TRUE
    /\ overlayDisplay' = "flex"
    /\ videoSrc' = PlaceholderSrc
    /\ fpsText' = Unavailable
    /\ facesText' = Unavailable

----------------------------------------------------------------------------
(* The page as loaded, before any handler has run *)

InitialStartDisabled == FALSE

InitialStopDisabled == TRUE

InitialDocument ==
    /\ statusDot = "disconnected"
    /\ statusText = "DISCONNECTED"
    /\ startDisabled = InitialStartDisabled
    /\ stopDisabled = InitialStopDisabled
    /\ overlayDisplay = "flex"
    /\ videoSrc = PlaceholderSrc
    /\ fpsText = Unavailable
    /\ facesText = Unavailable
    /\ alertsLog = <<PlaceholderEntry>>

Init ==
    /\ InitialDocument
    /\ socketConnected = FALSE
    /\ \E now \in Times : timeDisplay = toLocaleTimeString(now)
    /\ emitted = <<>>
    /\ serverRecv = 0
    /\ serverRunning = FALSE
    /\ inflight = <<>>
    /\ alertSeq = 0
    /\ emitView = NoView
    /\ lastEvent = [name |-> "load", phase |-> "idle", frame |-> NoFrame, alert |-> NoAlert]
    /\ lastControl = "none"

----------------------------------------------------------------------------
(* Socket.IO event listeners *)

\* variant: a reconnect resumes the monitoring view
Connect_Resumes ==
    /\ ~socketConnected
    /\ socketConnected' = TRUE
    /\ statusDot' = "connected"
    /\ statusText' = "CONNECTED"
    /\ startDisabled' = (lastControl = "disconnect")
    /\ stopDisabled' = ~(lastControl = "disconnect")
    /\ overlayDisplay' = (IF lastControl = "disconnect" THEN "none" ELSE "flex")
    /\ Dispatch("connect", NoFrame, NoAlert)
    /\ emitView' = NoView
    /\ UNCHANGED <<videoSrc, fpsText, facesText, alertsLog, timeDisplay, emitted,
                   serverRecv, serverRunning, inflight, alertSeq, lastControl>>

Connect ==
    /\ ~socketConnected
    /\ socketConnected' = TRUE
    /\ statusDot' = "connected"
    /\ statusText' = "CONNECTED"
    /\ Dispatch("connect", NoFrame, NoAlert)
    /\ emitView' = NoView
    /\ UNCHANGED <<startDisabled, stopDisabled, overlayDisplay, videoSrc, fpsText,
                   facesText, alertsLog, timeDisplay, emitted, serverRecv, serverRunning, inflight,
                   alertSeq, lastControl>>

\* variant: the server is told to stop
Disconnect_EmitsStop ==
    /\ socketConnected
    /\ socketConnected' = FALSE
    /\ statusDot' = "disconnected"
    /\ statusText' = "DISCONNECTED"
    /\ emit("stop_supervision")
    /\ stopSupervisionUI
    /\ inflight' = <<>>
    /\ Dispatch("disconnect", NoFrame, NoAlert)
    /\ lastControl' = "disconnect"
    /\ UNCHANGED <<alertsLog, timeDisplay, serverRecv, serverRunning, alertSeq>>

\* variant: only the connection indicator is updated
Disconnect_IndicatorOnly ==
    /\ socketConnected
    /\ socketConnected' = FALSE
    /\ statusDot' = "disconnected"
    /\ statusText' = "DISCONNECTED"
    /\ inflight' = <<>>
    /\ Dispatch("disconnect", NoFrame, NoAlert)
    /\ emitView' = NoView
    /\ lastControl' = "disconnect"
    /\ UNCHANGED <<startDisabled, stopDisabled, overlayDisplay, videoSrc, fpsText,
                   facesText, alertsLog, timeDisplay, emitted, serverRecv,
                   serverRunning, alertSeq>>

Disconnect ==
    /\ socketConnected
    /\ socketConnected' = FALSE
    /\ statusDot' = "disconnected"
    /\ statusText' = "DISCONNECTED"
    /\ stopSupervisionUI
    /\ inflight' = <<>>
    /\ Dispatch("disconnect", NoFrame, NoAlert)
    /\ emitView' = NoView
    /\ lastControl' = "disconnect"
    /\ UNCHANGED <<alertsLog, timeDisplay, emitted, serverRecv, serverRunning, alertSeq>>

\* variant: the face count is not refreshed
VideoFrame_StaleFaces(data) ==
    /\ socketConnected
    /\ videoSrc' = DataUrl(data.image)
    /\ fpsText' = TextOf(data.fps)
    /\ Dispatch("video_frame", data, NoAlert)
    /\ emitView' = NoView
    /\ UNCHANGED <<socketConnected, statusDot, statusText, startDisabled, stopDisabled,
                   overlayDisplay, facesText, alertsLog, timeDisplay, emitted,
                   serverRecv, serverRunning, inflight, alertSeq, lastControl>>

VideoFrame(data) ==
    /\ socketConnected
    /\ videoSrc' = DataUrl(data.image)
    /\ fpsText' = TextOf(data.fps)
    /\ facesText' = TextOf(data.face_count)
    /\ Dispatch("video_frame", data, NoAlert)
    /\ emitView' = NoView
    /\ UNCHANGED <<socketConnected, statusDot, statusText, startDisabled, stopDisabled,
                   overlayDisplay, alertsLog, timeDisplay, emitted, serverRecv, serverRunning,
                   inflight, alertSeq, lastControl>>

\* variant: an alert already shown is moved to the head, not shown twice
NewAlert_Deduplicates(alert) ==
    /\ socketConnected
    /\ alertSeq < MaxAlerts
    /\ alertSeq' = alertSeq + 1
    /\ LET placeholder == querySelector(alertsLog)
           cleared == IF placeholder # 0 THEN remove(alertsLog, placeholder) ELSE alertsLog
           others == SelectSeq(cleared, LAMBDA e : e.message # alert.type)
       IN  alertsLog' = prepend(others, AlertItem(alert, alertSeq + 1))
    /\ Dispatch("new_alert", NoFrame, alert)
    /\ emitView' = NoView
    /\ UNCHANGED <<socketConnected, statusDot, statusText, startDisabled, stopDisabled,
                   overlayDisplay, videoSrc, fpsText, facesText, timeDisplay, emitted,
                   serverRecv, serverRunning, inflight, lastControl>>

NewAlert(alert) ==
    /\ socketConnected
    /\ alertSeq < MaxAlerts
    /\ alertSeq' = alertSeq + 1
    /\ LET placeholder == querySelector(alertsLog)
           cleared == IF placeholder # 0 THEN remove(alertsLog, placeholder) ELSE alertsLog
       IN  alertsLog' = prepend(cleared, AlertItem(alert, alertSeq + 1))
    /\ Dispatch("new_alert", NoFrame, alert)
    /\ emitView' = NoView
    /\ UNCHANGED <<socketConnected, statusDot, statusText, startDisabled, stopDisabled,
                   overlayDisplay, videoSrc, fpsText, facesText, timeDisplay, emitted,
                   serverRecv, serverRunning, inflight, lastControl>>

\* variant: the notification is answered with a stop command
SupervisionStopped_Echoes ==
    /\ socketConnected
    /\ inflight # <<>>
    /\ inflight' = Tail(inflight)
    /\ emit("stop_supervision")
    /\ stopSupervisionUI
    /\ Dispatch("supervision_stopped", NoFrame, NoAlert)
    /\ lastControl' = "supervision_stopped"
    /\ UNCHANGED <<socketConnected, statusDot, statusText, alertsLog, timeDisplay,
                   serverRecv, serverRunning, alertSeq>>

SupervisionStopped ==
    /\ socketConnected
    /\ inflight # <<>>
    /\ inflight' = Tail(inflight)
    /\ stopSupervisionUI
    /\ Dispatch("supervision_stopped", NoFrame, NoAlert)
    /\ emitView' = NoView
    /\ lastControl' = "supervision_stopped"
    /\ UNCHANGED <<socketConnected, statusDot, statusText, alertsLog, timeDisplay,
                   emitted, serverRecv, serverRunning, alertSeq>>

----------------------------------------------------------------------------
(* Event handlers for buttons: a disabled button dispatches no click *)

\* variant: the click is taken only once the server has received every
\* earlier command
UserStart_AwaitsServer ==
    /\ ~startDisabled
    /\ serverRecv = Len(emitted)
    /\ Len(emitted) < MaxCommands
    /\ emit("start_supervision")
    /\ startSupervisionUI
    /\ Dispatch("user_start", NoFrame, NoAlert)
    /\ lastControl' = "user_start"
    /\ UNCHANGED <<socketConnected, statusDot, statusText, videoSrc, fpsText, facesText,
                   timeDisplay, serverRecv, serverRunning, inflight, alertSeq>>

UserStart ==
    /\ ~startDisabled
    /\ Len(emitted) < MaxCommands
    /\ emit("start_supervision")
    /\ startSupervisionUI
    /\ Dispatch("user_start", NoFrame, NoAlert)
    /\ lastControl' = "user_start"
    /\ UNCHANGED <<socketConnected, statusDot, statusText, videoSrc, fpsText, facesText,
                   timeDisplay, serverRecv, serverRunning, inflight, alertSeq>>

\* variant: the page is updated first and the command emitted afterwards
UserStop_UIFirst ==
    /\ ~stopDisabled
    /\ Len(emitted) < MaxCommands
    /\ stopSupervisionUI
    /\ emitted' = Append(emitted, "stop_supervision")
    /\ emitView' = [emitting |-> TRUE, startDisabled |-> startDisabled',
                    stopDisabled |-> stopDisabled', overlayDisplay |-> overlayDisplay',
                    videoSrc |-> videoSrc', fpsText |-> fpsText', facesText |-> facesText']
    /\ Dispatch("user_stop", NoFrame, NoAlert)
    /\ lastControl' = "user_stop"
    /\ UNCHANGED <<socketConnected, statusDot, statusText, alertsLog, timeDisplay,
                   serverRecv, serverRunning, inflight, alertSeq>>

UserStop ==
    /\ ~stopDisabled
    /\ Len(emitted) < MaxCommands
    /\ emit("stop_supervision")
    /\ stopSupervisionUI
    /\ Dispatch("user_stop", NoFrame, NoAlert)
    /\ lastControl' = "user_stop"
    /\ UNCHANGED <<socketConnected, statusDot, statusText, alertsLog, timeDisplay,
                   serverRecv, serverRunning, inflight, alertSeq>>

----------------------------------------------------------------------------
(* Utility: clock *)

updateTime(now) ==
    /\ timeDisplay' = toLocaleTimeString(now)
    /\ Dispatch("tick", NoFrame, NoAlert)
    /\ emitView' = NoView
    /\ UNCHANGED <<socketConnected, statusDot, statusText, startDisabled, stopDisabled,
                   overlayDisplay, videoSrc, fpsText, facesText, alertsLog, emitted,
                   serverRecv, serverRunning, inflight, alertSeq, lastControl>>

----------------------------------------------------------------------------
(* The remote side of the channel *)

\* the server takes the next command off the channel: a start command starts
\* its supervision, a stop command ends it, and the end of a running
\* supervision may be announced with a supervision_stopped notification,
\* stamped with the number of commands the server had received by then
ServerReceive ==
    /\ socketConnected
    /\ serverRecv < Len(emitted)
    /\ serverRecv' = serverRecv + 1
    /\ IF emitted[serverRecv + 1] = "start_supervision"
       THEN /\ serverRunning' = TRUE
            /\ inflight' = inflight
       ELSE /\ serverRunning' = FALSE
            /\ \/ inflight' = inflight
               \/ /\ serverRunning
                  /\ Len(inflight) < MaxInflight
                  /\ inflight' = Append(inflight, serverRecv + 1)
    /\ UNCHANGED <<dom, socketConnected, emitted, alertSeq, lastEvent, emitView, lastControl>>

\* the server ends a running supervision by itself and announces it
ServerStops ==
    /\ socketConnected
    /\ serverRunning
    /\ Len(inflight) < MaxInflight
    /\ serverRunning' = FALSE
    /\ inflight' = Append(inflight, serverRecv)
    /\ UNCHANGED <<dom, socketConnected, emitted, serverRecv, alertSeq, lastEvent, emitView, lastControl>>

----------------------------------------------------------------------------

Next ==
    \/ Connect
    \/ Disconnect
    \/ \E data \in Frames : VideoFrame(data)
    \/ \E alert \in Alerts : NewAlert(alert)
    \/ SupervisionStopped
    \/ UserStart
    \/ UserStop
    \/ \E now \in Times : updateTime(now)
    \/ ServerReceive
    \/ ServerStops

Spec == Init /\ [][Next]_vars

----------------------------------------------------------------------------
(* Properties *)

StopResets == {"user_stop", "supervision_stopped", "disconnect"}

\* number of alert entries in a log
NumAlerts(log) == Cardinality({i \in 1..Len(log) : IsAlert(log[i])})

\* position in emitted of the latest start command, 0 when there is none
LastStartIndex ==
    IF \E i \in 1..Len(emitted) : emitted[i] = "start_supervision"
    THEN CHOOSE i \in 1..Len(emitted) :
            /\ emitted[i] = "start_supervision"
            /\ \A j \in (i + 1)..Len(emitted) : emitted[j] # "start_supervision"
    ELSE 0

\* the view a stop leaves: start enabled, stop disabled, overlay shown,
\* image and both stat fields at their placeholders
ResetView ==
    /\ startDisabled = FALSE
    /\ stopDisabled = TRUE
    /\ overlayDisplay = "flex"
    /\ videoSrc = "static/placeholder.png"
    /\ fpsText = "--"
    /\ facesText = "--"

\* C1: when the event handled last is a video_frame delivered in the
\* monitoring phase, the image, the fps field and the face-count field show
\* that frame's values, whatever frames came before it.
C1_LastFrameWins ==
    (lastEvent.name = "video_frame" /\ lastEvent.phase = "monitoring") =>
        /\ videoSrc = "data:image/jpeg;base64," \o lastEvent.frame.image
        /\ fpsText = TextOf(lastEvent.frame.fps)
        /\ facesText = TextOf(lastEvent.frame.face_count)

C1_Witness ==
    /\ lastEvent.name = "video_frame"
    /\ lastEvent.phase = "monitoring"
    /\ lastEvent.frame.fps = 23
    /\ videoSrc = "data:image/jpeg;base64,CCC"
    /\ fpsText = "23"
    /\ facesText = "1"

\* C2: after a stop reset (user stop, supervision_stopped, disconnect) and
\* until the next user start, the image and the fps and face-count fields
\* stay at their placeholder values.
C2_StoppedKeepsPlaceholders ==
    lastControl \in StopResets =>
        /\ videoSrc = "static/placeholder.png"
        /\ fpsText = "--"
        /\ facesText = "--"

\* C3: a supervision_stopped notification that the server sent before it
\* received the latest start command does not take the client out of the
\* monitoring phase that start entered.
C3_StaleStopIgnored ==
    [][(/\ lastControl = "user_start"
        /\ Phase = "monitoring"
        /\ SupervisionStopped
        /\ Head(inflight) < LastStartIndex) => (Phase' = "monitoring")]_vars

\* C4: a disconnect received in the monitoring phase leaves the controls,
\* the overlay, the image and the stat fields in the view a user stop
\* leaves them in, and emits no command.
C4_DisconnectResets ==
    [][/\ (Phase = "monitoring" /\ UserStop) => ResetView'
       /\ (Phase = "monitoring" /\ Disconnect) => (ResetView' /\ emitted' = emitted)]_vars

C4_Witness ==
    /\ lastEvent.name = "disconnect"
    /\ lastEvent.phase = "monitoring"
    /\ ResetView
    /\ emitted = <<"start_supervision">>

\* C5: a supervision_stopped received in the monitoring phase enables start,
\* disables stop, shows the overlay, puts the image and the stat fields at
\* their placeholders, and emits no command.
C5_ServerStopResets ==
    [][(Phase = "monitoring" /\ SupervisionStopped) =>
            (/\ ~startDisabled' /\ stopDisabled'
             /\ overlayDisplay' = "flex"
             /\ videoSrc' = "static/placeholder.png"
             /\ fpsText' = "--" /\ facesText' = "--"
             /\ emitted' = emitted)]_vars

C5_Witness ==
    /\ lastEvent.name = "supervision_stopped"
    /\ lastEvent.phase = "monitoring"
    /\ Phase = "idle"
    /\ fpsText = "--"
    /\ emitted = <<"start_supervision">>

\* C6: whenever the connection status is disconnected, the session phase is
\* not monitoring.
C6_DisconnectedNotMonitoring ==
    statusText = "DISCONNECTED" => Phase # "monitoring"

\* C7 as stated: a stop reset leaves no alert entry in the log, and from
\* there every new_alert adds one entry.
C7_CountSinceReset ==
    [][/\ (UserStop \/ SupervisionStopped \/ Disconnect) => NumAlerts(alertsLog') = 0
       /\ (\E alert \in Alerts : NewAlert(alert)) =>
              NumAlerts(alertsLog') = NumAlerts(alertsLog) + 1]_vars

\* C7: the number of alert entries in the log equals the number of new_alert
\* events received since the last user start (since page load when there was
\* none): a user start leaves no alert entry, every new_alert adds one, and
\* every other event, the stop resets included, leaves the count as it is.
C7_CountSinceStart ==
    [][/\ UserStart => NumAlerts(alertsLog') = 0
       /\ (\E alert \in Alerts : NewAlert(alert)) =>
              NumAlerts(alertsLog') = NumAlerts(alertsLog) + 1
       /\ (~UserStart /\ ~(\E alert \in Alerts : NewAlert(alert))) =>
              NumAlerts(alertsLog') = NumAlerts(alertsLog)]_vars

C7_Witness ==
    /\ lastEvent.name \in StopResets
    /\ lastControl \in StopResets
    /\ NumAlerts(alertsLog) = 2

\* C8: alert entries appear in the reverse of their arrival order: of any two
\* alert entries in the log, the one nearer the head arrived later.
C8_NewestFirst ==
    \A i, j \in 1..Len(alertsLog) :
        (i < j /\ IsAlert(alertsLog[i]) /\ IsAlert(alertsLog[j])) =>
            alertsLog[i].id > alertsLog[j].id

C8_Witness ==
    /\ Len(alertsLog) = 2
    /\ alertsLog[1].message = "Gaze Away"
    /\ alertsLog[2].message = "Phone Detected"
    /\ alertsLog[1].id = 2
    /\ alertsLog[2].id = 1

\* C9: a user stop leaves the start and stop controls enabled as the page
\* loaded them, and the image and the fps and face-count fields at their
\* placeholders, whatever frames and alerts arrived since the start.
C9_StartStopRoundTrip ==
    [][UserStop =>
            (/\ startDisabled' = InitialStartDisabled
             /\ stopDisabled' = InitialStopDisabled
             /\ videoSrc' = "static/placeholder.png"
             /\ fpsText' = "--"
             /\ facesText' = "--")]_vars

C9_Witness ==
    /\ lastEvent.name = "user_stop"
    /\ emitted = <<"start_supervision", "stop_supervision">>
    /\ NumAlerts(alertsLog) > 0
    /\ startDisabled = InitialStartDisabled
    /\ stopDisabled = InitialStopDisabled
    /\ fpsText = "--"

\* C10: a user start from idle disables start, enables stop, hides the
\* overlay, leaves the placeholder as the only log entry and emits exactly
\* one start command, all in the one step and with nothing received from or
\* by the server in it; the click is accepted whatever the server has
\* received or sent.
C10_OptimisticStart ==
    /\ []((~startDisabled /\ Len(emitted) < MaxCommands) => ENABLED UserStart)
    /\ [][(Phase = "idle" /\ UserStart) =>
            (/\ startDisabled' /\ ~stopDisabled'
             /\ overlayDisplay' = "none"
             /\ alertsLog' = <<PlaceholderEntry>>
             /\ emitted' = emitted \o <<"start_supervision">>
             /\ Phase' = "monitoring"
             /\ serverRecv' = serverRecv
             /\ inflight' = inflight)]_vars

C10_Witness ==
    /\ lastEvent.name = "user_start"
    /\ lastEvent.phase = "idle"
    /\ Phase = "monitoring"
    /\ serverRecv < Len(emitted)
    /\ emitted[Len(emitted)] = "start_supervision"

\* C11 as stated: when a click handler emits its command, the controls, the
\* overlay and the display fields already hold the values the handler
\* leaves them with.
C11_UIBeforeEmit ==
    (emitView.emitting /\ lastEvent.name \in {"user_start", "user_stop"}) =>
        /\ emitView.startDisabled = startDisabled
        /\ emitView.stopDisabled = stopDisabled
        /\ emitView.overlayDisplay = overlayDisplay
        /\ emitView.videoSrc = videoSrc
        /\ emitView.fpsText = fpsText
        /\ emitView.facesText = facesText

\* C11: on each user start and each user stop the command is emitted first
\* and the page is updated afterwards in the same handler run: when the
\* command is emitted the controls, the overlay and the display fields
\* still hold the values the click found, and when the handler returns
\* they hold the values of the new phase.
C11_EmitBeforeUI ==
    [][/\ UserStart =>
            (/\ emitView' = [emitting |-> TRUE, startDisabled |-> FALSE,
                             stopDisabled |-> stopDisabled,
                             overlayDisplay |-> overlayDisplay, videoSrc |-> videoSrc,
                             fpsText |-> fpsText, facesText |-> facesText]
             /\ startDisabled' /\ ~stopDisabled' /\ overlayDisplay' = "none")
       /\ UserStop =>
            (/\ emitView' = [emitting |-> TRUE, startDisabled |-> startDisabled,
                             stopDisabled |-> FALSE,
                             overlayDisplay |-> overlayDisplay, videoSrc |-> videoSrc,
                             fpsText |-> fpsText, facesText |-> facesText]
             /\ ~startDisabled' /\ stopDisabled' /\ overlayDisplay' = "flex"
             /\ videoSrc' = "static/placeholder.png"
             /\ fpsText' = "--" /\ facesText' = "--")]_vars

C11_Witness ==
    /\ lastEvent.name = "user_stop"
    /\ emitView.emitting
    /\ emitView.stopDisabled = FALSE
    /\ emitView.overlayDisplay = "none"
    /\ emitView.fpsText = "23"
    /\ stopDisabled
    /\ overlayDisplay = "flex"
    /\ fpsText = "--"

\* the alert entries of a log, head first
AlertsOf(log) == SelectSeq(log, IsAlert)

\* old is the tail end of new
IsSuffix(old, new) ==
    /\ Len(old) <= Len(new)
    /\ SubSeq(new, Len(new) - Len(old) + 1, Len(new)) = old

HasPlaceholder(log) == \E i \in 1..Len(log) : IsPlaceholder(log[i])

NumPlaceholders(log) == Cardinality({i \in 1..Len(log) : IsPlaceholder(log[i])})

\* C12: every step that is not a user start keeps every alert entry of the
\* log, unchanged and in the same order below whatever the step adds at the
\* head; a new_alert adds its entry even when an equal alert is already
\* shown; a user start removes them all.
C12_AlertsKept ==
    [][/\ ~UserStart => IsSuffix(AlertsOf(alertsLog), AlertsOf(alertsLog'))
       /\ (~UserStart /\ ~(\E alert \in Alerts : NewAlert(alert))) =>
              AlertsOf(alertsLog') = AlertsOf(alertsLog)
       /\ (\E alert \in Alerts : NewAlert(alert)) =>
              Len(AlertsOf(alertsLog')) = Len(AlertsOf(alertsLog)) + 1
       /\ UserStart => AlertsOf(alertsLog') = <<>>]_vars

C12_Witness ==
    /\ lastEvent.name = "new_alert"
    /\ lastControl \in StopResets
    /\ Len(alertsLog) = 2
    /\ alertsLog[1].message = alertsLog[2].message
    /\ alertsLog[1].id = 2
    /\ alertsLog[2].id = 1

\* C13: once the user has started, the log holds the placeholder exactly
\* until the first new_alert after the latest start: a start puts it there,
\* a new_alert leaves none, no other event adds or removes it, and the log
\* never holds it next to an alert entry nor twice.
C13_PlaceholderUntilFirstAlert ==
    /\ [](LastStartIndex > 0 =>
            (~(HasPlaceholder(alertsLog) /\ NumAlerts(alertsLog) > 0)
               /\ NumPlaceholders(alertsLog) <= 1))
    /\ [][/\ (UserStart => HasPlaceholder(alertsLog'))
          /\ (\E alert \in Alerts : NewAlert(alert)) => ~HasPlaceholder(alertsLog')
          /\ (~UserStart /\ ~(\E alert \in Alerts : NewAlert(alert))) =>
                 (HasPlaceholder(alertsLog') <=> HasPlaceholder(alertsLog))]_vars

C13_Witness ==
    /\ LastStartIndex > 0
    /\ lastControl = "user_start"
    /\ lastEvent.name = "new_alert"
    /\ NumAlerts(alertsLog) = 2
    /\ ~HasPlaceholder(alertsLog)

\* C14: after every stop reset (user stop, supervision_stopped, disconnect)
\* the start click is accepted again, and every start click puts the session
\* in monitoring, however many starts and stops came before.
C14_NoTerminalState ==
    /\ []((lastControl \in StopResets /\ Len(emitted) < MaxCommands) => ENABLED UserStart)
    /\ [][UserStart => (Phase' = "monitoring")]_vars

C14_Witness ==
    /\ Phase = "monitoring"
    /\ lastEvent.name = "user_start"
    /\ Len(emitted) = 4
    /\ emitted[1] = "start_supervision"
    /\ emitted[2] = "stop_supervision"
    /\ emitted[3] = "start_supervision"
    /\ emitted[4] = "start_supervision"

\* C15: connect, video_frame, new_alert and the clock tick leave the
\* enablement of both controls and the overlay as they are, and the clock
\* tick changes no field of the page but the time field and emits nothing.
C15_PhaseOnlyByCommands ==
    [][/\ (\/ Connect
           \/ \E data \in Frames : VideoFrame(data)
           \/ \E alert \in Alerts : NewAlert(alert)
           \/ \E now \in Times : updateTime(now)) =>
              (/\ startDisabled' = startDisabled
               /\ stopDisabled' = stopDisabled
               /\ overlayDisplay' = overlayDisplay)
       /\ (\E now \in Times : updateTime(now)) =>
              (/\ statusDot' = statusDot /\ statusText' = statusText
               /\ videoSrc' = videoSrc /\ fpsText' = fpsText /\ facesText' = facesText
               /\ alertsLog' = alertsLog /\ emitted' = emitted)]_vars

C15_Witness ==
    /\ lastEvent.name = "connect"
    /\ lastControl = "disconnect"
    /\ emitted = <<"start_supervision">>
    /\ statusText = "CONNECTED"
    /\ Phase = "idle"

\* C16: once a start or a stop reset has run, exactly one of the two
\* controls is enabled and the overlay agrees with it: start disabled
\* exactly when stop is enabled, exactly when the overlay is hidden.
C16_ControlsExclusive ==
    lastControl # "none" =>
        /\ (startDisabled <=> ~stopDisabled)
        /\ (startDisabled <=> (overlayDisplay = "none"))
        /\ overlayDisplay \in {"none", "flex"}

C16_Witness ==
    /\ lastControl = "user_start"
    /\ lastEvent.name = "video_frame"
    /\ startDisabled
    /\ ~stopDisabled
    /\ overlayDisplay = "none"

\* C17: commands are emitted only by the two click handlers, one per click;
\* every stop command comes right after a start command in the order of
\* emission, so stops never outnumber starts and no two stops are emitted
\* without a start between them.
C17_StopsFollowStarts ==
    /\ [](/\ \A i \in 1..Len(emitted) :
                emitted[i] = "stop_supervision" =>
                    (i > 1 /\ emitted[i - 1] = "start_supervision")
          /\ Cardinality({i \in 1..Len(emitted) : emitted[i] = "stop_supervision"})
                <= Cardinality({i \in 1..Len(emitted) : emitted[i] = "start_supervision"}))
    /\ [][emitted' # emitted =>
            (/\ UserStart \/ UserStop
             /\ Len(emitted') = Len(emitted) + 1
             /\ SubSeq(emitted', 1, Len(emitted)) = emitted
             /\ UserStop => ~stopDisabled)]_vars

C17_Witness ==
    /\ emitted = <<"start_supervision", "start_supervision", "stop_supervision">>
    /\ lastEvent.name = "user_stop"
    /\ stopDisabled

\* C18: a supervision_stopped or disconnect handled right after another
\* stop reset leaves the controls, the overlay, the image, the stat fields
\* and the alert log as the first reset left them; both events are accepted
\* in the idle phase and leave the session idle.
C18_ResetIdempotent ==
    /\ [](socketConnected => ENABLED Disconnect)
    /\ []((socketConnected /\ inflight # <<>>) => ENABLED SupervisionStopped)
    /\ [][/\ (lastEvent.name \in StopResets /\ (SupervisionStopped \/ Disconnect)) =>
                 (/\ startDisabled' = startDisabled /\ stopDisabled' = stopDisabled
                  /\ overlayDisplay' = overlayDisplay /\ videoSrc' = videoSrc
                  /\ fpsText' = fpsText /\ facesText' = facesText
                  /\ alertsLog' = alertsLog)
          /\ (Phase = "idle" /\ (SupervisionStopped \/ Disconnect)) =>
                 (Phase' = "idle")]_vars

C18_Witness ==
    /\ lastEvent.name = "supervision_stopped"
    /\ lastEvent.phase = "idle"
    /\ emitted = <<"start_supervision", "stop_supervision">>
    /\ NumAlerts(alertsLog) = 1
    /\ Phase = "idle"
    /\ fpsText = "--"

====
